---------------------------- MODULE Spec2Model ----------------------------
(***************************************************************************)
(* A model of src/utils.ts of obsidian-linter: the region protection       *)
(* engine (ignoreCodeBlocksYAMLAndLinks), the offset-driven normalizers    *)
(* (makeEmphasisOrBoldConsistent, moveFootnotesToEnd) and the front-matter *)
(* helpers (formatYAML, initYAML).                                         *)
(*                                                                         *)
(* A JavaScript string is a sequence of one-character strings.  Offsets    *)
(* are 0-based as in the source; Substring(s, a, b) is s.substring(a, b).  *)
(***************************************************************************)
EXTENDS Integers, Sequences, FiniteSets, TLC

(***************************************************************************)
(* Bound of the model: the number of blocks a document is built from.      *)
(***************************************************************************)
MaxSegs == 3

NL == "\n"

Min(a, b) == IF a <= b THEN a ELSE b
Max(a, b) == IF a >= b THEN a ELSE b

(* String.prototype.substring: both arguments are clamped to [0, length]   *)
(* and swapped when start > end.                                           *)
Substring(s, a, b) ==
  LET a1 == Max(0, Min(a, Len(s)))
      b1 == Max(0, Min(b, Len(s)))
  IN  SubSeq(s, Min(a1, b1) + 1, Max(a1, b1))

(* s.substring(a): from a to the end of the string.                        *)
SubstringFrom(s, a) == Substring(s, a, Len(s))

(* Does pat occur in s at 0-based offset i.                                *)
StartsWithAt(s, pat, i) ==
  /\ i >= 0
  /\ i + Len(pat) <= Len(s)
  /\ \A k \in 1..Len(pat) : s[i + k] = pat[k]

(* String.prototype.indexOf: the first offset of pat in s, or -1.          *)
IndexOf(s, pat) ==
  LET hits == {i \in 0..(Len(s) - Len(pat)) : StartsWithAt(s, pat, i)}
  IN  IF hits = {} THEN -1 ELSE CHOOSE i \in hits : \A j \in hits : i <= j

(* The number of (non-overlapping, left to right) occurrences of pat in s. *)
RECURSIVE CountFrom(_, _, _)
CountFrom(s, pat, i) ==
  IF i + Len(pat) > Len(s) THEN 0
  ELSE IF StartsWithAt(s, pat, i) THEN 1 + CountFrom(s, pat, i + Len(pat))
  ELSE CountFrom(s, pat, i + 1)

Count(s, pat) == CountFrom(s, pat, 0)

RECURSIVE Concat(_)
Concat(ss) == IF ss = <<>> THEN <<>> ELSE Head(ss) \o Concat(Tail(ss))

Reverse(q) == [k \in 1..Len(q) |-> q[Len(q) + 1 - k]]

(***************************************************************************)
(* ECMAScript GetSubstitution for a replacement template with no capture   *)
(* groups: $$ is a dollar sign, $& the matched text, $' the text after the *)
(* match; any other $ is literal (with zero captures $1..$99 stay as       *)
(* written).  The pattern "dollar, backtick" (the text before the match)   *)
(* cannot arise: the alphabet of the model has no backtick.                *)
(***************************************************************************)
RECURSIVE GetSubstitution(_, _, _)
GetSubstitution(matched, after, tpl) ==
  IF tpl = <<>> THEN <<>>
  ELSE IF Head(tpl) = "$" /\ Len(tpl) >= 2
    THEN LET c    == tpl[2]
             rest == SubSeq(tpl, 3, Len(tpl))
         IN  CASE c = "$" -> <<"$">> \o GetSubstitution(matched, after, rest)
               [] c = "&" -> matched \o GetSubstitution(matched, after, rest)
               [] c = "'" -> after \o GetSubstitution(matched, after, rest)
               [] OTHER   -> <<"$">> \o GetSubstitution(matched, after, Tail(tpl))
    ELSE <<Head(tpl)>> \o GetSubstitution(matched, after, Tail(tpl))

(* The replacement of the match [at, at + n) of s by the expanded template.*)
ReplaceAt(s, at, n, tpl) ==
  LET matched == Substring(s, at, at + n)
      after   == SubstringFrom(s, at + n)
  IN  Substring(s, 0, at) \o GetSubstitution(matched, after, tpl) \o after

(* s.replace(pat, tpl) with a string pattern: the first occurrence only.   *)
ReplaceStr(s, pat, tpl) ==
  LET at == IndexOf(s, pat)
  IN  IF at < 0 THEN s ELSE ReplaceAt(s, at, Len(pat), tpl)

(* escapeDollarSigns: str.replace(/\$/g, '$$$$').                          *)
RECURSIVE escapeDollarSigns(_)
escapeDollarSigns(str) ==
  IF str = <<>> THEN <<>>
  ELSE (IF Head(str) = "$"
          THEN GetSubstitution(<<"$">>, <<>>, <<"$", "$", "$", "$">>)
          ELSE <<Head(str)>>)
       \o escapeDollarSigns(Tail(str))

Whitespace == {" ", "\n", "\t", "\r"}

(* String.prototype.trimEnd.                                               *)
RECURSIVE trimEnd(_)
trimEnd(s) ==
  IF s = <<>> THEN s
  ELSE IF s[Len(s)] \in Whitespace THEN trimEnd(SubSeq(s, 1, Len(s) - 1))
  ELSE s

(***************************************************************************)
(* Regular expressions of the source, each matched the way the ECMAScript  *)
(* backtracking matcher matches it.                                        *)
(***************************************************************************)
Dashes == <<"-", "-", "-">>

(* Lookahead (?=\n|$) at offset i (no m flag: $ is the end of the string). *)
AtNewlineOrEnd(s, i) == i = Len(s) \/ (i < Len(s) /\ s[i + 1] = NL)

(* yamlRegex without the case of the closing --- right after the opening   *)
(* line (a body that must hold at least a newline).                        *)
yamlRegexEndNoEmpty(s) ==
  IF ~StartsWithAt(s, Dashes \o <<NL>>, 0) THEN -1
  ELSE LET closers == {j \in 4..(Len(s) - 4) :
                         /\ s[j + 1] = NL
                         /\ StartsWithAt(s, Dashes, j + 1)
                         /\ AtNewlineOrEnd(s, j + 4)}
       IN  IF ~StartsWithAt(s, Dashes, 4) /\ closers # {}
             THEN (CHOOSE j \in closers : \A k \in closers : j <= k) + 4
           ELSE -1

(* yamlRegex = /^---\n((?:(((?!---)(?:.|\n)*?)\n)?))---(?=\n|$)/          *)
(* The end offset of the match at offset 0, or -1.  The optional group is  *)
(* tried first: it needs no --- at offset 4, then the shortest body that   *)
(* is followed by \n--- and the lookahead.  Without the group the closing  *)
(* --- is at offset 4.                                                     *)
yamlRegexEnd(s) ==
  IF ~StartsWithAt(s, Dashes \o <<NL>>, 0) THEN -1
  ELSE LET closers == {j \in 4..(Len(s) - 4) :
                         /\ s[j + 1] = NL
                         /\ StartsWithAt(s, Dashes, j + 1)
                         /\ AtNewlineOrEnd(s, j + 4)}
       IN  IF ~StartsWithAt(s, Dashes, 4) /\ closers # {}
             THEN (CHOOSE j \in closers : \A k \in closers : j <= k) + 4
           ELSE IF StartsWithAt(s, Dashes, 4) /\ AtNewlineOrEnd(s, 7) THEN 7
           ELSE -1

(* text.match(yamlRegex): null, or the array whose element 0 is the match. *)
NoMatch == [found |-> FALSE, str |-> <<>>]
matchYaml(s) ==
  IF yamlRegexEnd(s) < 0 THEN NoMatch
  ELSE [found |-> TRUE, str |-> Substring(s, 0, yamlRegexEnd(s))]

(* The offset of the end of the line that holds offset i ('.' matches no   *)
(* newline).                                                               *)
LineEnd(s, i) ==
  LET nls == {j \in i..(Len(s) - 1) : s[j + 1] = NL}
  IN  IF nls = {} THEN Len(s) ELSE CHOOSE j \in nls : \A k \in nls : j <= k

MaxOf(S) == CHOOSE x \in S : \A y \in S : y <= x

(* linkRegex = /((!?)\[.*\]\(.*\))|(\[{2}.*\]{2})/g                        *)
(* The end offset of the match that starts at offset i, or -1.  The first  *)
(* alternative is tried first; both .* are greedy and stay on one line.    *)
linkRegexEndAt(s, i) ==
  LET p    == IF i < Len(s) /\ s[i + 1] = "!" THEN i + 1 ELSE i
      L    == LineEnd(s, i)
      mids == {q \in (p + 1)..(L - 3) :
                 /\ StartsWithAt(s, <<"]", "(">>, q)
                 /\ \E r \in (q + 2)..(L - 1) : s[r + 1] = ")"}
      q1   == MaxOf(mids)
      ends == {q \in (i + 2)..(L - 2) : StartsWithAt(s, <<"]", "]">>, q)}
  IN  IF p < Len(s) /\ s[p + 1] = "[" /\ mids # {}
        THEN MaxOf({r \in (q1 + 2)..(L - 1) : s[r + 1] = ")"}) + 1
      ELSE IF StartsWithAt(s, <<"[", "[">>, i) /\ ends # {}
        THEN MaxOf(ends) + 2
      ELSE -1

(* The matches of linkRegex with the g flag, left to right from offset i,  *)
(* as <<start, end>> pairs.                                                *)
RECURSIVE linkSpansFrom(_, _)
linkSpansFrom(s, i) ==
  IF i >= Len(s) THEN <<>>
  ELSE IF linkRegexEndAt(s, i) >= 0
    THEN <<<<i, linkRegexEndAt(s, i)>>>> \o linkSpansFrom(s, linkRegexEndAt(s, i))
  ELSE linkSpansFrom(s, i + 1)

(* text.match(linkRegex): the matched strings in order (null is <<>>).     *)
matchLinks(s) ==
  LET spans == linkSpansFrom(s, 0)
  IN  [k \in 1..Len(spans) |-> Substring(s, spans[k][1], spans[k][2])]

(* text.replaceAll(linkRegex, tpl), from offset i on.                      *)
RECURSIVE replaceAllLinksFrom(_, _, _)
replaceAllLinksFrom(s, i, tpl) ==
  IF i >= Len(s) THEN <<>>
  ELSE LET e == linkRegexEndAt(s, i)
       IN  IF e >= 0
             THEN GetSubstitution(Substring(s, i, e), SubstringFrom(s, e), tpl)
                    \o replaceAllLinksFrom(s, e, tpl)
           ELSE <<s[i + 1]>> \o replaceAllLinksFrom(s, i + 1, tpl)

replaceAllLinks(s, tpl) == replaceAllLinksFrom(s, 0, tpl)

(* Upper-casing of the letters, for the i flag of a regular expression.    *)
LowerCase == <<"a", "b", "c", "d", "e", "f", "g", "h", "i", "j", "k", "l", "m",
               "n", "o", "p", "q", "r", "s", "t", "u", "v", "w", "x", "y", "z">>
UpperCase == <<"A", "B", "C", "D", "E", "F", "G", "H", "I", "J", "K", "L", "M",
               "N", "O", "P", "Q", "R", "S", "T", "U", "V", "W", "X", "Y", "Z">>

toUpperCaseChar(c) ==
  IF \E k \in 1..Len(LowerCase) : LowerCase[k] = c
    THEN UpperCase[CHOOSE k \in 1..Len(LowerCase) : LowerCase[k] = c]
    ELSE c

toUpperCase(s) == [k \in 1..Len(s) |-> toUpperCaseChar(s[k])]

(* text.replace(new RegExp(pat, 'i'), tpl) for a pattern of literal        *)
(* characters: the first case-insensitive occurrence only.                 *)
ReplaceRegExpI(s, pat, tpl) ==
  LET at == IndexOf(toUpperCase(s), toUpperCase(pat))
  IN  IF at < 0 THEN s ELSE ReplaceAt(s, at, Len(pat), tpl)

(***************************************************************************)
(* Documents.  The markdown parser (remark with remark-gfm) is an external *)
(* collaborator: a document of the model is a sequence of blocks, each     *)
(* with its text and the element spans the parser reports inside it        *)
(* (<<type, start, end>>, offsets relative to the block).  Every block     *)
(* ends its line, so the blocks parse the same in every combination drawn  *)
(* below.                                                                  *)
(***************************************************************************)
Seg(t, m) == [txt |-> t, marks |-> m]

(* A line of prose with dollar signs.                                      *)
ProseSeg == Seg(<<"p", " ", "$", "1", NL>>, {})
(* A --- line: a front-matter delimiter (to the parser, a thematic break). *)
DashSeg == Seg(<<"-", "-", "-", NL>>, {})
(* A line that starts with --- but is no delimiter.                        *)
DashXSeg == Seg(<<"-", "-", "-", "x", NL>>, {})
(* A fenced code block whose content is $& (the node ends at the fence).   *)
CodeSeg == Seg(<<"~", "~", "~", NL, "$", "&", NL, "~", "~", "~", NL>>, {<<"code", 0, 10>>})
(* A link whose text holds two dollar signs.                               *)
LinkSeg == Seg(<<"[", "a", "$", "$", "]", "(", "u", ")", NL>>, {<<"link", 0, 8>>})
(* A wiki link without dollar signs.                                       *)
WikiSeg == Seg(<<"[", "[", "w", "]", "]", NL>>, {<<"link", 0, 5>>})

(* Footnote documents: prose with trailing whitespace, a blank line and    *)
(* two definitions (the node ends before the newline).                     *)
TextSeg == Seg(<<"A", " ", NL>>, {})
BlankSeg == Seg(<<NL>>, {})
Note1Seg == Seg(<<"[", "^", "1", "]", ":", " ", "x", NL>>, {<<"footnoteDefinition", 0, 7>>})
Note2Seg == Seg(<<"[", "^", "2", "]", ":", " ", "y", NL>>, {<<"footnoteDefinition", 0, 7>>})

(* Emphasis documents: *a*, __d__, _x *y*_ (emphasis nested in emphasis)   *)
(* and _**e**_ (strong nested in emphasis), each followed by a space.      *)
WordSeg == Seg(<<"p", " ">>, {})
EmSeg == Seg(<<"*", "a", "*", " ">>, {<<"emphasis", 0, 3>>})
StrongSeg == Seg(<<"_", "_", "d", "_", "_", " ">>, {<<"strong", 0, 5>>})
NestedEmSeg == Seg(<<"_", "x", " ", "*", "y", "*", "_", " ">>,
                   {<<"emphasis", 0, 7>>, <<"emphasis", 3, 6>>})
EmStrongSeg == Seg(<<"_", "*", "*", "e", "*", "*", "_", " ">>,
                   {<<"emphasis", 0, 7>>, <<"strong", 1, 6>>})

ProtectSegs == {ProseSeg, DashSeg, CodeSeg, LinkSeg, WikiSeg}
YamlSegs == {ProseSeg, DashSeg, DashXSeg, LinkSeg}
FootnoteSegs == {TextSeg, BlankSeg, Note1Seg, Note2Seg}
EmphasisSegs == {WordSeg, EmSeg, StrongSeg, NestedEmSeg, EmStrongSeg}

DocsOver(S) == UNION {[1..n -> S] : n \in 1..MaxSegs}

IsNote(seg) == seg.marks # {}

(* A footnote definition is not followed by a prose line (the parser would *)
(* take that line into the definition as a lazy continuation).             *)
FootnoteDocs ==
  {d \in DocsOver(FootnoteSegs) :
     \A k \in 1..(Len(d) - 1) : IsNote(d[k]) => d[k + 1] # TextSeg}

DocText(d) == Concat([k \in 1..Len(d) |-> d[k].txt])

SegOffset(d, k) == Len(DocText(SubSeq(d, 1, k - 1)))

(* The element spans of a document, as the parser reports them.            *)
DocMarks(d) ==
  UNION {{<<m[1], SegOffset(d, k) + m[2], SegOffset(d, k) + m[3]>> : m \in d[k].marks} :
           k \in 1..Len(d)}

Position(a, b) == [start |-> a, end |-> b]

(* positions.sort((a, b) => b.start.offset - a.start.offset)               *)
RECURSIVE SortDescending(_)
SortDescending(S) ==
  IF S = {} THEN <<>>
  ELSE LET top == CHOOSE p \in S : \A q \in S : q.start <= p.start
       IN  <<top>> \o SortDescending(S \ {top})

(* An ascending sort: what the sort of getPositions would be with the      *)
(* comparison reversed.                                                    *)
SortAscending(S) == Reverse(SortDescending(S))

getPositionsAscending(type, d) ==
  SortAscending({Position(m[2], m[3]) : m \in {x \in DocMarks(d) : x[1] = type}})

(* getPositions: the spans of the given type, by descending start offset.  *)
getPositions(type, d) ==
  SortDescending({Position(m[2], m[3]) : m \in {x \in DocMarks(d) : x[1] = type}})

(***************************************************************************)
(* The placeholders of ignoreCodeBlocksYAMLAndLinks.                       *)
(***************************************************************************)
codePlaceholder ==
  <<"P", "L", "A", "C", "E", "H", "O", "L", "D", "E", "R", " ", "3", "2", "1", "4", "1", "7">>
yamlPlaceholder == <<"-", "-", "-", NL, "-", "-", "-">>
linkPlaceHolder ==
  <<"P", "L", "A", "C", "E", "H", "O", "L", "D", "E", "R", "_", "L", "I", "N", "K", " ",
    "5", "7", "8", "4", "9">>

(* The caller's transform: the identity, or an upper-casing rule (it       *)
(* leaves the placeholders, which hold no lower-case letter, as they are). *)
Funcs == {"identity", "upper"}
applyFunc(f, t) == IF f = "upper" THEN toUpperCase(t) ELSE t

(***************************************************************************)
(* makeEmphasisOrBoldConsistent                                            *)
(***************************************************************************)
Styles == {"underscore", "asterisk", "consistent"}
Types == {"emphasis", "strong"}

(* What line 80 would read with the first element of the list instead.     *)
headPosition(positions) == positions[1]

(* const firstPosition = positions[positions.length-1]                     *)
firstPosition(positions) == positions[Len(positions)]

(* The indicator: lines 74-87.                                             *)
emphasisIndicator(t, style, type, positions) ==
  LET one == IF style = "underscore" THEN <<"_">>
             ELSE IF style = "asterisk" THEN <<"*">>
             ELSE Substring(t, firstPosition(positions).start,
                            firstPosition(positions).start + 1)
  IN  IF type = "strong" THEN one \o one ELSE one

(* The splice of line 90 at one position.                                  *)
spliceIndicator(t, position, indicator) ==
  Substring(t, 0, position.start) \o indicator
    \o Substring(t, position.start + Len(indicator), position.end - Len(indicator))
    \o indicator \o SubstringFrom(t, position.end)

(* The loop of lines 89-91 from the k-th position on.                      *)
RECURSIVE spliceAll(_, _, _, _)
spliceAll(t, positions, k, indicator) ==
  IF k > Len(positions) THEN t
  ELSE spliceAll(spliceIndicator(t, positions[k], indicator), positions, k + 1, indicator)

makeEmphasisOrBoldConsistent(t, style, type, positions) ==
  IF Len(positions) = 0 THEN t
  ELSE spliceAll(t, positions, 1, emphasisIndicator(t, style, type, positions))

(***************************************************************************)
(* moveFootnotesToEnd                                                      *)
(***************************************************************************)
(* Lines 109-111 (and again 113-115): drop the newline at offset e, if any.*)
dropNewlineAt(t, e) ==
  IF e < Len(t) /\ t[e + 1] = NL
    THEN Substring(t, 0, e) \o SubstringFrom(t, e + 1)
    ELSE t

(* One iteration of the loop of lines 105-117: the text without the        *)
(* footnote and the up to two newlines after it.                           *)
removeFootnote(t, position) ==
  LET t2 == dropNewlineAt(dropNewlineAt(t, position.end), position.end)
  IN  Substring(t2, 0, position.start) \o SubstringFrom(t2, position.end)

(* The loop of lines 105-117 from the k-th position on: the remaining text *)
(* and the footnotes in the order they were pushed.                        *)
RECURSIVE removeFootnotes(_, _, _, _)
removeFootnotes(t, positions, k, footnotes) ==
  IF k > Len(positions) THEN [text |-> t, footnotes |-> footnotes]
  ELSE removeFootnotes(removeFootnote(t, positions[k]), positions, k + 1,
                       Append(footnotes, Substring(t, positions[k].start, positions[k].end)))

(* for (const footnote of footnotes) text += '\n' + footnote               *)
RECURSIVE appendFootnotes(_, _)
appendFootnotes(t, footnotes) ==
  IF footnotes = <<>> THEN t
  ELSE appendFootnotes(t \o <<NL>> \o Head(footnotes), Tail(footnotes))

(* Lines 123-128 with the trim done whether or not a footnote was found.   *)
addFootnotesAlwaysTrim(t, footnotes) ==
  appendFootnotes(trimEnd(t) \o <<NL>>, footnotes)

(* Lines 123-128 with a blank line before every footnote.                  *)
RECURSIVE appendFootnotesBlank(_, _)
appendFootnotesBlank(t, footnotes) ==
  IF footnotes = <<>> THEN t
  ELSE appendFootnotesBlank(t \o <<NL, NL>> \o Head(footnotes), Tail(footnotes))

addFootnotesBlank(t, footnotes) ==
  IF Len(footnotes) > 0 THEN appendFootnotesBlank(trimEnd(t), footnotes) ELSE t

(* Lines 122-128: trim and one newline if there is a footnote, then each   *)
(* footnote after a newline.                                               *)
addFootnotes(t, footnotes) ==
  appendFootnotes(IF Len(footnotes) > 0 THEN trimEnd(t) \o <<NL>> ELSE t, footnotes)

(* moveFootnotesToEnd without the reversal of line 120.                    *)
moveFootnotesToEndNoReverse(t, positions) ==
  LET r == removeFootnotes(t, positions, 1, <<>>)
  IN  addFootnotes(r.text, r.footnotes)

moveFootnotesToEnd(t, positions) ==
  LET r == removeFootnotes(t, positions, 1, <<>>)
  IN  addFootnotes(r.text, Reverse(r.footnotes))

(***************************************************************************)
(* formatYAML and initYAML                                                 *)
(***************************************************************************)
(* formatYAML: the result, and the inputs func was called with.            *)
formatYAML(t, f) ==
  IF ~matchYaml(t).found THEN [text |-> t, calls |-> <<>>]
  ELSE LET oldYaml == matchYaml(t).str
           newYaml == applyFunc(f, oldYaml)
       IN  [text  |-> ReplaceStr(t, oldYaml, escapeDollarSigns(newYaml)),
            calls |-> <<oldYaml>>]

EmptyYaml == <<"-", "-", "-", NL, "-", "-", "-", NL>>

initYAML(t) == IF ~matchYaml(t).found THEN EmptyYaml \o t ELSE t

(***************************************************************************)
(* The state: one call of one exported function.                           *)
(***************************************************************************)
VARIABLES
  op,                 \* the function called
  doc,                \* the input document, as the parser sees it
  orig,               \* the input text
  text,               \* the local variable text; the returned string when pc = "done"
  pc,                 \* the position in the function
  func,               \* the transform passed in
  style,              \* makeEmphasisOrBoldConsistent: style
  type,               \* makeEmphasisOrBoldConsistent: type
  positions,          \* the result of getPositions
  idx,                \* the index of the running for-of loop
  replacedCodeBlocks, \* replaceCodeblocks: the blocks taken out
  yamlMatches,        \* text.match(yamlRegex)
  linkMatches,        \* text.match(linkRegex)
  calls,              \* history: the arguments func was called with
  log,                \* history: the phases completed, in order
  reads,              \* history: each position of replaceCodeblocks with the substring read
  inserted,           \* history: each restoring substitution, content given and text inserted
  ret1                \* initYAML: the first call's result

vars == <<op, doc, orig, text, pc, func, style, type, positions, idx, replacedCodeBlocks,
          yamlMatches, linkMatches, calls, log, reads, inserted, ret1>>

(* The input without its final character (a document whose last line has   *)
(* no newline).                                                            *)
Chop(t, c) == IF c /\ Len(t) > 0 THEN SubSeq(t, 1, Len(t) - 1) ELSE t

InitLocals ==
  /\ text = orig
  /\ pc = "start"
  /\ positions = <<>>
  /\ idx = 1
  /\ replacedCodeBlocks = <<>>
  /\ yamlMatches = NoMatch
  /\ linkMatches = <<>>
  /\ calls = <<>>
  /\ log = <<>>
  /\ reads = <<>>
  /\ inserted = <<>>
  /\ ret1 = <<>>

InitProtect ==
  /\ op = "ignoreCodeBlocksYAMLAndLinks"
  /\ doc \in DocsOver(ProtectSegs)
  /\ orig = DocText(doc)
  /\ func \in Funcs
  /\ style = "none" /\ type = "none"
  /\ InitLocals

InitEmphasis ==
  /\ op = "makeEmphasisOrBoldConsistent"
  /\ doc \in DocsOver(EmphasisSegs)
  /\ orig = DocText(doc)
  /\ func = "none"
  /\ style \in Styles /\ type \in Types
  /\ InitLocals

InitFootnotes ==
  /\ op = "moveFootnotesToEnd"
  /\ doc \in FootnoteDocs
  /\ \E c \in BOOLEAN : orig = Chop(DocText(doc), c)
  /\ func = "none"
  /\ style = "none" /\ type = "none"
  /\ InitLocals

InitFormatYAML ==
  /\ op = "formatYAML"
  /\ doc \in DocsOver(YamlSegs)
  /\ \E c \in BOOLEAN : orig = Chop(DocText(doc), c)
  /\ func \in Funcs
  /\ style = "none" /\ type = "none"
  /\ InitLocals

InitInitYAML ==
  /\ op = "initYAML"
  /\ doc \in DocsOver(YamlSegs)
  /\ \E c \in BOOLEAN : orig = Chop(DocText(doc), c)
  /\ func = "none"
  /\ style = "none" /\ type = "none"
  /\ InitLocals

Init == InitProtect \/ InitEmphasis \/ InitFootnotes \/ InitFormatYAML \/ InitInitYAML

(***************************************************************************)
(* ignoreCodeBlocksYAMLAndLinks, statement by statement.                   *)
(***************************************************************************)
(* A statement order that restores the code blocks before the links.       *)
nextStepCodeFirst(step) ==
  CASE step = "maskCode"     -> "maskYaml"
    [] step = "maskYaml"     -> "maskLinks"
    [] step = "maskLinks"    -> "restoreCode"
    [] step = "restoreCode"  -> "func"
    [] step = "func"         -> "restoreLinks"
    [] step = "restoreLinks" -> "restoreYaml"
    [] step = "restoreYaml"  -> "done"

(* The order of the statements of lines 143-175.                           *)
nextStep(step) ==
  CASE step = "maskCode"     -> "maskYaml"
    [] step = "maskYaml"     -> "maskLinks"
    [] step = "maskLinks"    -> "func"
    [] step = "func"         -> "restoreLinks"
    [] step = "restoreLinks" -> "restoreYaml"
    [] step = "restoreYaml"  -> "restoreCode"
    [] step = "restoreCode"  -> "done"

(* The text a substitution call inserts for the match [at, at + n).        *)
InsertedText(s, at, n, tpl) ==
  GetSubstitution(Substring(s, at, at + n), SubstringFrom(s, at + n), tpl)

Protecting == op = "ignoreCodeBlocksYAMLAndLinks"

(* replaceCodeblocks, lines 46-47.                                         *)
ReplaceCodeblocksStart ==
  /\ Protecting /\ pc = "start"
  /\ positions' = getPositions("code", doc)
  /\ replacedCodeBlocks' = <<>>
  /\ idx' = 1
  /\ pc' = "maskCode"
  /\ UNCHANGED <<op, doc, orig, text, func, style, type, yamlMatches, linkMatches,
                 calls, log, reads, inserted, ret1>>

(* replaceCodeblocks, one iteration of the loop of lines 49-53.            *)
ReplaceCodeblocksStep ==
  /\ Protecting /\ pc = "maskCode" /\ idx <= Len(positions)
  /\ LET position  == positions[idx]
         codeblock == Substring(text, position.start, position.end)
     IN  /\ replacedCodeBlocks' = Append(replacedCodeBlocks, codeblock)
         /\ reads' = Append(reads, [position |-> position, codeblock |-> codeblock])
         /\ text' = Substring(text, 0, position.start) \o codePlaceholder
                      \o SubstringFrom(text, position.end)
  /\ idx' = idx + 1
  /\ UNCHANGED <<op, doc, orig, pc, func, style, type, positions, yamlMatches, linkMatches,
                 calls, log, inserted, ret1>>

(* replaceCodeblocks, lines 56-58, and the caller's lines 144-145.         *)
ReplaceCodeblocksReturn ==
  /\ Protecting /\ pc = "maskCode" /\ idx > Len(positions)
  /\ replacedCodeBlocks' = Reverse(replacedCodeBlocks)
  /\ log' = Append(log, "maskCode")
  /\ idx' = 1
  /\ pc' = nextStep("maskCode")
  /\ UNCHANGED <<op, doc, orig, text, func, style, type, positions, yamlMatches, linkMatches,
                 calls, reads, inserted, ret1>>

(* Lines 147-151.                                                          *)
MaskYaml ==
  /\ Protecting /\ pc = "maskYaml"
  /\ yamlMatches' = matchYaml(text)
  /\ text' = IF matchYaml(text).found
               THEN ReplaceStr(text, matchYaml(text).str, escapeDollarSigns(yamlPlaceholder))
               ELSE text
  /\ log' = Append(log, "maskYaml")
  /\ idx' = 1
  /\ pc' = nextStep("maskYaml")
  /\ UNCHANGED <<op, doc, orig, func, style, type, positions, replacedCodeBlocks, linkMatches,
                 calls, reads, inserted, ret1>>

(* Lines 153-155.                                                          *)
MaskLinks ==
  /\ Protecting /\ pc = "maskLinks"
  /\ linkMatches' = matchLinks(text)
  /\ text' = replaceAllLinks(text, linkPlaceHolder)
  /\ log' = Append(log, "maskLinks")
  /\ idx' = 1
  /\ pc' = nextStep("maskLinks")
  /\ UNCHANGED <<op, doc, orig, func, style, type, positions, replacedCodeBlocks, yamlMatches,
                 calls, reads, inserted, ret1>>

(* Line 157.                                                               *)
CallFunc ==
  /\ Protecting /\ pc = "func"
  /\ calls' = Append(calls, text)
  /\ text' = applyFunc(func, text)
  /\ log' = Append(log, "func")
  /\ idx' = 1
  /\ pc' = nextStep("func")
  /\ UNCHANGED <<op, doc, orig, func, style, type, positions, replacedCodeBlocks, yamlMatches,
                 linkMatches, reads, inserted, ret1>>

(* One iteration of the loop of lines 160-164.                             *)
RestoreLinkStep ==
  /\ Protecting /\ pc = "restoreLinks" /\ idx <= Len(linkMatches)
  /\ LET link == linkMatches[idx]
         at   == IndexOf(toUpperCase(text), toUpperCase(linkPlaceHolder))
     IN  /\ text' = ReplaceRegExpI(text, linkPlaceHolder, link)
         /\ inserted' =
              IF at < 0 THEN inserted
              ELSE Append(inserted,
                          [kind |-> "link", content |-> link,
                           got |-> InsertedText(text, at, Len(linkPlaceHolder), link)])
  /\ idx' = idx + 1
  /\ UNCHANGED <<op, doc, orig, pc, func, style, type, positions, replacedCodeBlocks,
                 yamlMatches, linkMatches, calls, log, reads, ret1>>

(* The end of the loop of lines 159-165.                                   *)
RestoreLinksDone ==
  /\ Protecting /\ pc = "restoreLinks" /\ idx > Len(linkMatches)
  /\ log' = Append(log, "restoreLinks")
  /\ idx' = 1
  /\ pc' = nextStep("restoreLinks")
  /\ UNCHANGED <<op, doc, orig, text, func, style, type, positions, replacedCodeBlocks,
                 yamlMatches, linkMatches, calls, reads, inserted, ret1>>

(* Lines 167-169.                                                          *)
RestoreYaml ==
  /\ Protecting /\ pc = "restoreYaml"
  /\ LET at  == IndexOf(text, yamlPlaceholder)
         tpl == escapeDollarSigns(yamlMatches.str)
     IN  /\ text' = IF yamlMatches.found THEN ReplaceStr(text, yamlPlaceholder, tpl) ELSE text
         /\ inserted' =
              IF yamlMatches.found /\ at >= 0
                THEN Append(inserted,
                            [kind |-> "yaml", content |-> yamlMatches.str,
                             got |-> InsertedText(text, at, Len(yamlPlaceholder), tpl)])
                ELSE inserted
  /\ log' = Append(log, "restoreYaml")
  /\ idx' = 1
  /\ pc' = nextStep("restoreYaml")
  /\ UNCHANGED <<op, doc, orig, func, style, type, positions, replacedCodeBlocks, yamlMatches,
                 linkMatches, calls, reads, ret1>>

(* One iteration of the loop of lines 171-173.                             *)
RestoreCodeStep ==
  /\ Protecting /\ pc = "restoreCode" /\ idx <= Len(replacedCodeBlocks)
  /\ LET codeblock == replacedCodeBlocks[idx]
         at        == IndexOf(text, codePlaceholder)
         tpl       == escapeDollarSigns(codeblock)
     IN  /\ text' = ReplaceStr(text, codePlaceholder, tpl)
         /\ inserted' =
              IF at < 0 THEN inserted
              ELSE Append(inserted,
                          [kind |-> "code", content |-> codeblock,
                           got |-> InsertedText(text, at, Len(codePlaceholder), tpl)])
  /\ idx' = idx + 1
  /\ UNCHANGED <<op, doc, orig, pc, func, style, type, positions, replacedCodeBlocks,
                 yamlMatches, linkMatches, calls, log, reads, ret1>>

(* The end of the loop of lines 171-173, and the return of line 175.       *)
RestoreCodeDone ==
  /\ Protecting /\ pc = "restoreCode" /\ idx > Len(replacedCodeBlocks)
  /\ log' = Append(log, "restoreCode")
  /\ idx' = 1
  /\ pc' = nextStep("restoreCode")
  /\ UNCHANGED <<op, doc, orig, text, func, style, type, positions, replacedCodeBlocks,
                 yamlMatches, linkMatches, calls, reads, inserted, ret1>>

(***************************************************************************)
(* The other exported functions, one action per call.                      *)
(***************************************************************************)
MakeEmphasisOrBoldConsistent ==
  /\ op = "makeEmphasisOrBoldConsistent" /\ pc = "start"
  /\ positions' = getPositions(type, doc)
  /\ text' = makeEmphasisOrBoldConsistent(text, style, type, getPositions(type, doc))
  /\ pc' = "done"
  /\ UNCHANGED <<op, doc, orig, func, style, type, idx, replacedCodeBlocks, yamlMatches,
                 linkMatches, calls, log, reads, inserted, ret1>>

MoveFootnotesToEnd ==
  /\ op = "moveFootnotesToEnd" /\ pc = "start"
  /\ positions' = getPositions("footnoteDefinition", doc)
  /\ text' = moveFootnotesToEnd(text, getPositions("footnoteDefinition", doc))
  /\ pc' = "done"
  /\ UNCHANGED <<op, doc, orig, func, style, type, idx, replacedCodeBlocks, yamlMatches,
                 linkMatches, calls, log, reads, inserted, ret1>>

FormatYAML ==
  /\ op = "formatYAML" /\ pc = "start"
  /\ text' = formatYAML(text, func).text
  /\ calls' = formatYAML(text, func).calls
  /\ yamlMatches' = matchYaml(text)
  /\ inserted' =
       IF matchYaml(text).found
         THEN <<[kind |-> "newYaml", content |-> applyFunc(func, matchYaml(text).str),
                 got |-> InsertedText(text, 0, Len(matchYaml(text).str),
                                      escapeDollarSigns(applyFunc(func, matchYaml(text).str)))]>>
         ELSE inserted
  /\ pc' = "done"
  /\ UNCHANGED <<op, doc, orig, func, style, type, positions, idx, replacedCodeBlocks,
                 linkMatches, log, reads, ret1>>

(* initYAML, called on the input.                                          *)
InitYAML ==
  /\ op = "initYAML" /\ pc = "start"
  /\ text' = initYAML(text)
  /\ ret1' = initYAML(text)
  /\ pc' = "again"
  /\ UNCHANGED <<op, doc, orig, func, style, type, positions, idx, replacedCodeBlocks,
                 yamlMatches, linkMatches, calls, log, reads, inserted>>

(* initYAML, called on its own result.                                     *)
InitYAMLAgain ==
  /\ op = "initYAML" /\ pc = "again"
  /\ text' = initYAML(text)
  /\ pc' = "done"
  /\ UNCHANGED <<op, doc, orig, func, style, type, positions, idx, replacedCodeBlocks,
                 yamlMatches, linkMatches, calls, log, reads, inserted, ret1>>

Next ==
  \/ ReplaceCodeblocksStart
  \/ ReplaceCodeblocksStep
  \/ ReplaceCodeblocksReturn
  \/ MaskYaml
  \/ MaskLinks
  \/ CallFunc
  \/ RestoreLinkStep
  \/ RestoreLinksDone
  \/ RestoreYaml
  \/ RestoreCodeStep
  \/ RestoreCodeDone
  \/ MakeEmphasisOrBoldConsistent
  \/ MoveFootnotesToEnd
  \/ FormatYAML
  \/ InitYAML
  \/ InitYAMLAgain

Spec == Init /\ [][Next]_vars

(***************************************************************************)
(* Vocabulary of the properties, taken from the input document and not     *)
(* from the run.                                                           *)
(***************************************************************************)
Done == pc = "done"

(* The spans of a type in document order, and their original substrings.   *)
SpansOf(t) == SortAscending({Position(m[2], m[3]) : m \in {x \in DocMarks(doc) : x[1] = t}})
OrigAt(p) == SubSeq(orig, p.start + 1, p.end)
BlocksOf(t) == [k \in 1..Len(SpansOf(t)) |-> OrigAt(SpansOf(t)[k])]

InSpan(i, p) == p.start <= i /\ i < p.end

(* The front matter of the input: the offsets before FrontMatterEnd.       *)
FrontMatterEnd == Max(0, yamlRegexEnd(orig))

(* Offset i of the input lies in a code block, the front matter or a link. *)
ProtectedAt(i) ==
  \/ i < FrontMatterEnd
  \/ \E k \in 1..Len(SpansOf("code")) : InSpan(i, SpansOf("code")[k])
  \/ \E k \in 1..Len(SpansOf("link")) : InSpan(i, SpansOf("link")[k])

(* The input with func applied to the prose characters only.               *)
ProseTransformed ==
  [k \in 1..Len(orig) |->
     IF ProtectedAt(k - 1) THEN orig[k] ELSE applyFunc(func, <<orig[k]>>)[1]]

(* The literal replacement, left to right, of the k-th occurrence of the   *)
(* placeholder by the k-th block.                                          *)
RECURSIVE Refill(_, _, _)
Refill(t, ph, blocks) ==
  IF blocks = <<>> \/ IndexOf(t, ph) < 0 THEN t
  ELSE Substring(t, 0, IndexOf(t, ph)) \o Head(blocks)
         \o Refill(SubstringFrom(t, IndexOf(t, ph) + Len(ph)), ph, Tail(blocks))

(* C1: ignoreCodeBlocksYAMLAndLinks with the identity transform returns    *)
(* exactly its input (no input of the model holds a code or link           *)
(* placeholder).                                                           *)
C1_RoundTrip ==
  (Protecting /\ Done /\ func = "identity"
     /\ Count(orig, codePlaceholder) = 0
     /\ Count(toUpperCase(orig), linkPlaceHolder) = 0)
    => text = orig

(* C2: with a transform that rewrites prose only, the output is the input  *)
(* with the prose transformed and every code block, the front matter and   *)
(* every link byte-identical at its place.                                 *)
C2_TransformIsolation ==
  (Protecting /\ Done) => text = ProseTransformed

(* C3: every restoring substitution call of ignoreCodeBlocksYAMLAndLinks   *)
(* and formatYAML inserts its content literally (the content is escaped,   *)
(* so no dollar sequence in it is read as a replacement pattern).          *)
C3_EscapedInsertions ==
  \A k \in 1..Len(inserted) : inserted[k].got = inserted[k].content

(* C4: initYAML prepends the empty block exactly when the input has no     *)
(* front matter at offset 0, returns the input otherwise, its result has   *)
(* front matter, and a second call returns the first call's result.        *)
C4_InitYAMLIdempotent ==
  (op = "initYAML" /\ Done) =>
    /\ ret1 = (IF yamlRegexEnd(orig) >= 0 THEN orig ELSE EmptyYaml \o orig)
    /\ yamlRegexEnd(ret1) >= 0
    /\ text = ret1

(* C4 happens: an input that starts with --- but has no front matter got   *)
(* the empty block, and the second call changed nothing.                   *)
C4_Witness ==
  /\ op = "initYAML" /\ Done
  /\ StartsWithAt(orig, Dashes, 0) /\ yamlRegexEnd(orig) < 0
  /\ text = EmptyYaml \o orig

(* The indicator the claim names: _ or * for the named styles, else the    *)
(* first character of the first span in document order; doubled for        *)
(* strong.                                                                 *)
TargetIndicator ==
  LET one == IF style = "underscore" THEN <<"_">>
             ELSE IF style = "asterisk" THEN <<"*">>
             ELSE <<orig[SpansOf(type)[1].start + 1]>>
  IN  IF type = "strong" THEN one \o one ELSE one

(* Offset i is one of the delimiter characters of a span of the type.      *)
DelimiterAt(i) ==
  \E k \in 1..Len(SpansOf(type)) :
    LET p == SpansOf(type)[k]
        n == Len(TargetIndicator)
    IN  (p.start <= i /\ i < p.start + n) \/ (p.end - n <= i /\ i < p.end)

(* C5: after makeEmphasisOrBoldConsistent every span of the type begins    *)
(* and ends with the target indicator, and every other character is the    *)
(* input's.                                                                *)
C5_IndicatorConsistent ==
  (op = "makeEmphasisOrBoldConsistent" /\ Done /\ Len(SpansOf(type)) > 0) =>
    /\ Len(text) = Len(orig)
    /\ \A k \in 1..Len(SpansOf(type)) :
         LET p == SpansOf(type)[k]
             n == Len(TargetIndicator)
         IN  /\ SubSeq(text, p.start + 1, p.start + n) = TargetIndicator
             /\ SubSeq(text, p.end - n + 1, p.end) = TargetIndicator
    /\ \A i \in 0..(Len(orig) - 1) : ~DelimiterAt(i) => text[i + 1] = orig[i + 1]

(* C5 happens: style consistent, two or more spans, the first in document  *)
(* order and the last with different delimiters, and the text changed.     *)
C5_Witness ==
  /\ op = "makeEmphasisOrBoldConsistent" /\ Done /\ style = "consistent"
  /\ Len(SpansOf(type)) >= 2
  /\ orig[SpansOf(type)[1].start + 1] # orig[SpansOf(type)[Len(SpansOf(type))].start + 1]
  /\ text # orig

(* The characters of the input outside every footnote definition, and a    *)
(* string without its newlines.                                            *)
OutsideNotes ==
  LET keep == {i \in 0..(Len(orig) - 1) :
                 \A k \in 1..Len(SpansOf("footnoteDefinition")) :
                   ~InSpan(i, SpansOf("footnoteDefinition")[k])}
      F[i \in 0..Len(orig)] ==
        IF i = 0 THEN <<>>
        ELSE IF (i - 1) \in keep THEN Append(F[i - 1], orig[i]) ELSE F[i - 1]
  IN  F[Len(orig)]

NoNewlines(t) == SelectSeq(t, LAMBDA c : c # NL)

Notes == BlocksOf("footnoteDefinition")

(* The offset in the output where the k-th relocated definition starts     *)
(* when the output ends with the definitions, each after one separator     *)
(* string of length sep.                                                   *)
RECURSIVE TailLen(_, _)
TailLen(k, sep) ==
  IF k > Len(Notes) THEN 0 ELSE Len(Notes[k]) + TailLen(k + 1, sep) + sep

NoteStart(k) == Len(text) - TailLen(k, 1) + 1

(* The output before the first appended definition and its separator.      *)
OutputHead == SubSeq(text, 1, NoteStart(1) - 1)

Moved == op = "moveFootnotesToEnd" /\ Done /\ Len(Notes) > 0

(* C6: moveFootnotesToEnd leaves no definition in place and appends them   *)
(* all, byte-identical and in document order, after the remaining text,    *)
(* which keeps its characters in order and ends, trimmed, with one newline.*)
C6_FootnotesMoved ==
  Moved =>
    /\ \A k \in 1..Len(Notes) :
         SubSeq(text, NoteStart(k) + 1, NoteStart(k) + Len(Notes[k])) = Notes[k]
    /\ Count(text, <<"[", "^">>) = Len(Notes)
    /\ Count(OutputHead, <<"[", "^">>) = 0
    /\ NoNewlines(OutputHead) = NoNewlines(trimEnd(OutsideNotes))
    /\ OutputHead = trimEnd(OutputHead) \o <<NL>>

(* C6 happens: two definitions with prose between and after them moved.    *)
C6_Witness ==
  /\ Moved /\ Len(Notes) = 2
  /\ Notes[1] # Notes[2]
  /\ Len(NoNewlines(OutputHead)) > 0
  /\ text # orig

(* C7 as stated: the two characters before every relocated definition are  *)
(* newlines.                                                               *)
C7_BlankLineBeforeEach ==
  Moved =>
    \A k \in 1..Len(Notes) :
      /\ SubSeq(text, NoteStart(k) + 1, NoteStart(k) + Len(Notes[k])) = Notes[k]
      /\ text[NoteStart(k)] = NL
      /\ text[NoteStart(k) - 1] = NL

(* C7 amended: the two characters before the first relocated definition    *)
(* are newlines; every later definition is separated from the last         *)
(* character of the definition before it by exactly one newline.           *)
C7_BlankLineBeforeFirst ==
  Moved =>
    \A k \in 1..Len(Notes) :
      /\ SubSeq(text, NoteStart(k) + 1, NoteStart(k) + Len(Notes[k])) = Notes[k]
      /\ text[NoteStart(k)] = NL
      /\ k = 1 => text[NoteStart(k) - 1] = NL
      /\ k > 1 => SubSeq(text, NoteStart(k) - Len(Notes[k - 1]), NoteStart(k) - 1) = Notes[k - 1]

(* C7 happens: two or more definitions were relocated.                     *)
C7_Witness == Moved /\ Len(Notes) >= 2 /\ text[NoteStart(2) - 1] # NL

(* C8: with nothing to match, moveFootnotesToEnd,                          *)
(* makeEmphasisOrBoldConsistent and formatYAML return the input itself,    *)
(* and formatYAML does not call the transform.                             *)
C8_NoMatchNoOp ==
  /\ (op = "moveFootnotesToEnd" /\ Done /\ Len(Notes) = 0) => text = orig
  /\ (op = "makeEmphasisOrBoldConsistent" /\ Done /\ Len(SpansOf(type)) = 0) => text = orig
  /\ (op = "formatYAML" /\ Done /\ yamlRegexEnd(orig) < 0) => (text = orig /\ calls = <<>>)

(* C8 happens: a text without footnote definitions that ends in white      *)
(* space went through moveFootnotesToEnd.                                  *)
C8_Witness ==
  /\ op = "moveFootnotesToEnd" /\ Done /\ Len(Notes) = 0
  /\ Len(orig) >= 2 /\ orig[Len(orig)] = NL /\ orig[Len(orig) - 1] \in Whitespace

(* C8 happens for formatYAML too: a text that starts with --- and has no   *)
(* front matter.                                                           *)
C8_WitnessYAML ==
  /\ op = "formatYAML" /\ Done /\ yamlRegexEnd(orig) < 0
  /\ StartsWithAt(orig, Dashes, 0) /\ func = "upper"

(* C9: the phases run in the order mask code, mask front matter, mask      *)
(* links, transform, restore links, restore front matter, restore code;    *)
(* the transform is called once, on a text in which every code block, the  *)
(* front matter and every link is masked (a code block inside the front    *)
(* matter is masked with it); nothing is restored before it.               *)
C9_PhaseOrder ==
  Protecting =>
    /\ Len(calls) <= 1
    /\ Done => (/\ Len(calls) = 1
                /\ log = <<"maskCode", "maskYaml", "maskLinks", "func",
                           "restoreLinks", "restoreYaml", "restoreCode">>)
    /\ inserted # <<>> => calls # <<>>
    /\ calls # <<>> =>
         /\ SubSeq(log, 1, 3) = <<"maskCode", "maskYaml", "maskLinks">>
         /\ Count(calls[1], codePlaceholder) =
              Cardinality({k \in 1..Len(SpansOf("code")) :
                             SpansOf("code")[k].start >= FrontMatterEnd})
         /\ Count(calls[1], <<"~", "~", "~">>) = 0
         /\ matchLinks(calls[1]) = <<>>
         /\ yamlRegexEnd(orig) >= 0 => StartsWithAt(calls[1], yamlPlaceholder \o <<NL>>, 0)
    /\ \A k \in 1..Len(inserted) : \A j \in 1..Len(inserted) :
         (k < j) => <<inserted[k].kind, inserted[j].kind>> \in
                      {<<"link", "link">>, <<"link", "yaml">>, <<"link", "code">>,
                       <<"yaml", "code">>, <<"code", "code">>}

(* C9 happens: a run with front matter and a link or a code block after   *)
(* it returned, restoring both.                                            *)
C9_Witness ==
  /\ Protecting /\ Done /\ yamlMatches.found
  /\ Cardinality({inserted[k].kind : k \in 1..Len(inserted)}) >= 2

(* C10: in replaceCodeblocks every substring read is the substring of the  *)
(* original text at that position; after the reversal the recorded blocks  *)
(* are in document order, the masked text holds one placeholder per block  *)
(* and refilling the placeholders in order gives the original text.        *)
C10_OffsetSafe ==
  Protecting =>
    /\ \A k \in 1..Len(reads) : reads[k].codeblock = OrigAt(reads[k].position)
    /\ pc = "maskYaml" =>
         /\ replacedCodeBlocks = BlocksOf("code")
         /\ Count(text, codePlaceholder) = Len(replacedCodeBlocks)
         /\ Refill(text, codePlaceholder, replacedCodeBlocks) = orig

(* C10 happens: two code blocks with text between them were extracted.     *)
C10_Witness ==
  /\ Protecting /\ pc = "maskYaml"
  /\ Len(replacedCodeBlocks) >= 2
  /\ Len(reads) >= 2
  /\ reads[1].position.start > reads[2].position.end

=============================================================================
